---- MODULE Spec2Model ----
(***************************************************************************)
(* Stock data pipeline (backend/data_prep.py), SQLite store helpers        *)
(* (backend/db.py) and the query endpoints (backend/app.py).               *)
(*                                                                         *)
(* Numbers.  Prices and volumes are integers.  Ratios are fixed point:     *)
(* daily_return, ma_7 and volatility are kept in units of 1/Scale,         *)
(* normalized values in hundredths (they are rounded to 2 decimals by the  *)
(* code).  A missing float (numpy NaN, SQL NULL) is the value NaN, an      *)
(* infinite one is Inf; both are outside the range of every number used.   *)
(*                                                                         *)
(* Dates are day numbers; day 0 is a Monday, so weekday(d) = d % 7 and     *)
(* timedelta(days=k) is k.  The time of day that datetime.now() carries    *)
(* into the generated dates is not modelled.                               *)
(***************************************************************************)
EXTENDS Integers, Sequences, FiniteSets, TLC

\* ------------------------------------------------------------------ bounds
\* Longest upstream frame (rows) the provider returns.
MaxBars == 2
\* Number of fetch_save calls in one behaviour.
MaxIngests == 2
\* Trading days of the synthetic series per period (500 / 365 / 250 in the
\* source, scaled down so that the store stays small).
Days2y == 5
Days1y == 4
DaysOther == 3

\* --------------------------------------------------------- program constants
max_retries == 3
MaWindow == 7
window_days == 252
VolWindow == 30
TradingDays == 252
Last30Limit == 60
Last30Tail == 30
PriceFloor == 100
DefaultBasePrice == 1500
NoiseStd == 20

\* Fixed-point unit of ratios (1.0 = Scale).
Scale == 1000
\* 100.00 in hundredths.
Hundred == 10000

NaN == -1000000
Inf == 1000000

IsNum(x) == x # NaN /\ x # Inf

Max2(a, b) == IF a >= b THEN a ELSE b
Min2(a, b) == IF a <= b THEN a ELSE b

\* float division a / b, the result in units of 1/unit of a.
\* x/0 is inf for x > 0 and nan for 0/0; nan propagates.
FDiv(a, b, unit) ==
    IF a = NaN \/ b = NaN THEN NaN
    ELSE IF a = Inf /\ b = Inf THEN NaN
    ELSE IF a = Inf THEN Inf
    ELSE IF b = Inf THEN 0
    ELSE IF b = 0 THEN (IF a = 0 THEN NaN ELSE Inf)
    ELSE (a * unit) \div b

\* a - b on floats.
FSub(a, b) ==
    IF a = NaN \/ b = NaN THEN NaN
    ELSE IF a = Inf /\ b = Inf THEN NaN
    ELSE IF a = Inf THEN Inf
    ELSE IF b = Inf THEN NaN
    ELSE a - b

RECURSIVE IsqrtIn(_, _, _)
IsqrtIn(n, lo, hi) ==
    IF lo >= hi THEN lo
    ELSE LET mid == (lo + hi + 1) \div 2
         IN IF mid * mid <= n THEN IsqrtIn(n, mid, hi) ELSE IsqrtIn(n, lo, mid - 1)

\* floor(sqrt(n)) for 0 <= n.
Isqrt(n) == IsqrtIn(n, 0, 40000)

\* ----------------------------------------------------------------- symbols
\* Symbols passed to fetch_save and to the queries.
SymbolInputs == {"a", "B"}
\* Symbols passed to clear_old_data.
ClearInputs == SymbolInputs \cup {""}
\* str.upper()
Upper(s) == IF s = "a" THEN "A" ELSE s

Periods == {"2y", "1y", "6mo"}

\* ------------------------------------------------------- generate_sample_data
\* The loop of generate_sample_data that collects weekdays, from `current`
\* forward, until `days` dates are held or `current` passes `end_date`.
RECURSIVE CollectWeekdays(_, _, _, _)
CollectWeekdays(dates, current_date, end_date, days) ==
    IF Len(dates) < days /\ current_date <= end_date
    THEN CollectWeekdays(IF current_date % 7 < 5 THEN Append(dates, current_date) ELSE dates,
                         current_date + 1, end_date, days)
    ELSE dates

\* list[-n:]
LastN(s, n) ==
    IF n = 0 \/ Len(s) <= n THEN s ELSE SubSeq(s, Len(s) - n + 1, Len(s))

SampleDates(end_date, days) ==
    LastN(CollectWeekdays(<<>>, end_date - days * 2, end_date, days), days)

\* np.sin(i / 50) * 50, to the nearest integer (exact for the i < 12 used here).
Trend(i) == i
\* np.random.normal(0, 20) of the seeded generator: one standard deviation
\* either way.
Noise(seed, i) == IF (i + seed) % 2 = 0 THEN NoiseStd ELSE 0 - NoiseStd

\* prices[i] for i in range(days), i counted from 0.
RECURSIVE SamplePrice(_, _)
SamplePrice(seed, i) ==
    LET prev == IF i = 0 THEN DefaultBasePrice ELSE SamplePrice(seed, i - 1)
    IN Max2(PriceFloor, prev + Trend(i) + Noise(seed, i))

\* One synthetic bar: open within 1% of the price, high0/low0 within 2%,
\* then high/low forced around open and close.
SampleBar(seed, i, date) ==
    LET p == SamplePrice(seed, i)
        o == p + ((p * (IF seed = 0 THEN 1 ELSE 0 - 1)) \div 100)
        h0 == p + (p \div 100)
        l0 == p - (p \div 100)
    IN [date |-> date, open |-> o,
        high |-> Max2(o, Max2(h0, p)), low |-> Min2(o, Min2(l0, p)),
        close |-> p, volume |-> 1000000 * (1 + ((i + seed) % 4))]

\* The frame has one row per generated date (pandas refuses columns of
\* different lengths; the date loop always yields `days` dates).
generate_sample_data(symbol, days, end_date, seed) ==
    LET dates == SampleDates(end_date, days)
    IN [i \in 1..Len(dates) |-> SampleBar(seed, i - 1, dates[i])]

SampleDays(period) ==
    IF period = "2y" THEN Days2y ELSE IF period = "1y" THEN Days1y ELSE DaysOther

\* ------------------------------------------------------- upstream provider
\* Days on which the provider has bars (a Monday and a Friday).
UpstreamDates == {21, 25}

\* The OHLCV values the provider reports for a day: an ordinary bar, a day
\* whose values are all missing, and a bar that closed at zero.
BarKinds ==
    { [open |-> 2, high |-> 4, low |-> 2, close |-> 4, volume |-> 7],
      [open |-> NaN, high |-> NaN, low |-> NaN, close |-> NaN, volume |-> NaN],
      [open |-> 1, high |-> 1, low |-> 0, close |-> 0, volume |-> 0] }

UpstreamBar(date, k) ==
    [date |-> date, open |-> k.open, high |-> k.high, low |-> k.low,
     close |-> k.close, volume |-> k.volume]

\* ticker.history(): a non-empty frame, ascending by date.
UpstreamFrames ==
    UNION { { [i \in 1..n |-> UpstreamBar(q[i], k[i])] :
                q \in { d \in [1..n -> UpstreamDates] :
                          \A i \in 1..n : \A j \in 1..n : i < j => d[i] < d[j] },
                k \in [1..n -> BarKinds] } : n \in 1..MaxBars }

\* ------------------------------------------------------------ derived metrics
\* Rows lo..hi of a column (a sequence of floats) that hold a number.
Observed(col, lo, hi) == { j \in lo..hi : col[j] # NaN }

RECURSIVE SumOf(_, _)
SumOf(col, S) ==
    IF S = {} THEN 0
    ELSE LET j == CHOOSE x \in S : TRUE IN col[j] + SumOf(col, S \ {j})

RECURSIVE SumSqOf(_, _)
SumSqOf(col, S) ==
    IF S = {} THEN 0
    ELSE LET j == CHOOSE x \in S : TRUE IN col[j] * col[j] + SumSqOf(col, S \ {j})

\* First row of the trailing window of `w` rows ending at row i.
WindowStart(i, w) == Max2(1, i - w + 1)

\* Series.rolling(window=w, min_periods=1).mean()[i], in units of 1/Scale.
RollingMean(col, i, w) ==
    LET S == Observed(col, WindowStart(i, w), i)
    IN IF S = {} THEN NaN ELSE (SumOf(col, S) * Scale) \div Cardinality(S)

\* Series.rolling(window=w, min_periods=1).max()[i]
RollingMax(col, i, w) ==
    LET S == Observed(col, WindowStart(i, w), i)
    IN IF S = {} THEN NaN ELSE CHOOSE m \in { col[j] : j \in S } : \A j \in S : col[j] <= m

\* Series.rolling(window=w, min_periods=1).min()[i]
RollingMin(col, i, w) ==
    LET S == Observed(col, WindowStart(i, w), i)
    IN IF S = {} THEN NaN ELSE CHOOSE m \in { col[j] : j \in S } : \A j \in S : m <= col[j]

\* Series.rolling(window=w, min_periods=1).std()[i]: the sample standard
\* deviation (ddof = 1), which is nan for fewer than two observations.
RollingStd(col, i, w) ==
    LET S == Observed(col, WindowStart(i, w), i)
        n == Cardinality(S)
    IN IF n < 2 \/ \E j \in S : col[j] = Inf THEN NaN
       ELSE Isqrt((n * SumSqOf(col, S) - SumOf(col, S) * SumOf(col, S)) \div (n * (n - 1)))

\* std * (252 ** 0.5)
Annualized(sd) == IF sd = NaN THEN NaN ELSE Isqrt(sd * sd * TradingDays)

\* fillna(method='ffill')[i]
RECURSIVE FFillAt(_, _)
FFillAt(col, i) ==
    IF col[i] # NaN THEN col[i] ELSE IF i = 1 THEN NaN ELSE FFillAt(col, i - 1)

\* fillna(method='bfill')[i]
RECURSIVE BFillAt(_, _)
BFillAt(col, i) ==
    IF col[i] # NaN THEN col[i] ELSE IF i = Len(col) THEN NaN ELSE BFillAt(col, i + 1)

\* fillna(method='ffill').fillna(method='bfill')
Filled(col) ==
    LET f == [i \in 1..Len(col) |-> FFillAt(col, i)]
    IN [i \in 1..Len(col) |-> BFillAt(f, i)]

\* (close - open) / open, in units of 1/Scale.
DailyReturn(open, close) == FDiv(FSub(close, open), open, Scale)

Col(frame, name) == [i \in 1..Len(frame) |-> frame[i][name]]

\* Lines 139-160 of fetch_save: daily_return, ma_7 and the 52-week extremes
\* from the frame as fetched, then the fill of the raw columns, then the
\* volatility from the daily_return column, then the symbol column.
DeriveMetrics(frame, symbol) ==
    LET open == Col(frame, "open")
        high == Col(frame, "high")
        low == Col(frame, "low")
        close == Col(frame, "close")
        volume == Col(frame, "volume")
        daily_return == [i \in 1..Len(frame) |-> DailyReturn(open[i], close[i])]
    IN [i \in 1..Len(frame) |->
          [symbol |-> Upper(symbol),
           date |-> frame[i].date,
           open |-> Filled(open)[i],
           high |-> Filled(high)[i],
           low |-> Filled(low)[i],
           close |-> Filled(close)[i],
           volume |-> Filled(volume)[i],
           daily_return |-> daily_return[i],
           ma_7 |-> RollingMean(close, i, MaWindow),
           high_52w |-> RollingMax(high, i, window_days),
           low_52w |-> RollingMin(low, i, window_days),
           volatility |-> Annualized(RollingStd(daily_return, i, VolWindow))]]

\* ------------------------------------------------------------------ queries
RECURSIVE InsertAsc(_, _)
InsertAsc(sorted, r) ==
    IF sorted = <<>> THEN <<r>>
    ELSE IF r.date < Head(sorted).date THEN <<r>> \o sorted
    ELSE <<Head(sorted)>> \o InsertAsc(Tail(sorted), r)

\* DataFrame.sort_values('date'): ascending, rows of equal date in their
\* incoming order.
RECURSIVE SortAsc(_)
SortAsc(rows) ==
    IF rows = <<>> THEN <<>>
    ELSE InsertAsc(SortAsc(SubSeq(rows, 1, Len(rows) - 1)), rows[Len(rows)])

RECURSIVE InsertDesc(_, _)
InsertDesc(sorted, r) ==
    IF sorted = <<>> THEN <<r>>
    ELSE IF r.date > Head(sorted).date THEN <<r>> \o sorted
    ELSE <<Head(sorted)>> \o InsertDesc(Tail(sorted), r)

\* ORDER BY date DESC, rows of equal date in rowid order.
RECURSIVE OrderByDateDesc(_)
OrderByDateDesc(rows) ==
    IF rows = <<>> THEN <<>>
    ELSE InsertDesc(OrderByDateDesc(SubSeq(rows, 1, Len(rows) - 1)), rows[Len(rows)])

FirstN(s, n) == IF Len(s) <= n THEN s ELSE SubSeq(s, 1, n)

\* The rows get_symbol_data returns from table `tbl`; `limit` is an integer
\* (0 is falsy, so no LIMIT clause is added for it).
get_symbol_data(tbl, symbol, limit) ==
    LET sel == SelectSeq(tbl, LAMBDA r : r.symbol = Upper(symbol))
        desc == OrderByDateDesc(sel)
        df == IF limit # 0 THEN FirstN(desc, limit) ELSE desc
    IN IF df # <<>> THEN SortAsc(df) ELSE <<>>

MaxDate(rows) == CHOOSE d \in { rows[i].date : i \in 1..Len(rows) } :
                     \A i \in 1..Len(rows) : rows[i].date <= d

\* Variant of Normalized that yields the percent change from close0.
Normalized_PercentChange(close, close0) ==
    IF close = NaN \/ close0 = NaN THEN NaN
    ELSE IF close0 = 0 THEN (IF close = 0 THEN NaN ELSE Inf)
    ELSE (2 * (close - close0) * Hundred + close0) \div (2 * close0)

\* round(close / close0 * 100, 2), in hundredths.
Normalized(close, close0) ==
    IF close = NaN \/ close0 = NaN THEN NaN
    ELSE IF close0 = 0 THEN (IF close = 0 THEN NaN ELSE Inf)
    ELSE (2 * close * Hundred + close0) \div (2 * close0)

\* The rows of compare's result for the two restricted frames.  A row is a
\* dict: when both symbols are the same its two normalized keys are one key,
\* which holds the second value.
CompareRows(d1, d2, s1, s2) ==
    [idx \in 1..Min2(Len(d1), Len(d2)) |->
        [date |-> d1[idx].date,
         normalized |-> [k \in {s1, s2} |->
                           IF k = s2 THEN Normalized(d2[idx].close, d2[1].close)
                           ELSE Normalized(d1[idx].close, d1[1].close)]]]

\* One row of /data/{symbol}: missing derived values are replaced.
Last30Row(r) ==
    [date |-> r.date, open |-> r.open, high |-> r.high, low |-> r.low,
     close |-> r.close, volume |-> r.volume,
     daily_return |-> IF r.daily_return # NaN THEN r.daily_return ELSE 0,
     ma_7 |-> IF r.ma_7 # NaN THEN r.ma_7
              ELSE IF r.close = NaN THEN NaN ELSE r.close * Scale,
     volatility |-> IF r.volatility # NaN THEN r.volatility ELSE 0,
     symbol |-> r.symbol]

\* --------------------------------------------------------------------- state
VARIABLES
    fileExists,   \* the file at DB_PATH exists
    tableExists,  \* the file holds the table stock_data
    store,        \* the rows of stock_data, in rowid order
    pc,           \* where the running fetch_save is: idle, try, sleep, post
    call,         \* the arguments of the running fetch_save
    attempt,      \* the loop variable of the retry loop
    log,          \* the upstream attempts and sleeps of the running fetch_save
    ingests,      \* fetch_save calls so far
    result        \* what the last completed operation returned or raised

vars == <<fileExists, tableExists, store, pc, call, attempt, log, ingests, result>>

\* Days datetime.now() may return when the fallback runs: a Wednesday and a
\* Sunday.
Nows == {23, 27}
\* The values of `days` and `limit` the callers pass.
DaysInputs == {1, 4}
LimitInputs == {0, 1}

NoCall == [symbol |-> "", period |-> "", use_sample |-> FALSE]

Result(op, status, sym1, sym2, num, flag, rows) ==
    [op |-> op, status |-> status, sym1 |-> sym1, sym2 |-> sym2, num |-> num,
     flag |-> flag, rows |-> rows]

Init ==
    /\ fileExists = FALSE
    /\ tableExists = FALSE
    /\ store = <<>>
    /\ pc = "idle"
    /\ call = NoCall
    /\ attempt = 0
    /\ log = <<>>
    /\ ingests = 0
    /\ result = Result("none", "", "", "", 0, FALSE, <<>>)

\* ----------------------------------------------------------------- fetch_save
\* fetch_save is entered: max_retries = 3, df = None.
FetchSaveCall(symbol, period, use_sample) ==
    /\ pc = "idle"
    /\ ingests < MaxIngests
    /\ ingests' = ingests + 1
    /\ pc' = "try"
    /\ call' = [symbol |-> symbol, period |-> period, use_sample |-> use_sample]
    /\ attempt' = 0
    /\ log' = <<>>
    /\ result' = Result("fetch_save", "running", Upper(symbol), "", 0, FALSE, <<>>)
    /\ UNCHANGED <<fileExists, tableExists, store>>

AttemptEvent(idx, res) == [kind |-> "attempt", idx |-> idx, res |-> res, secs |-> 0]
SleepEvent(idx, secs) == [kind |-> "sleep", idx |-> idx, res |-> "", secs |-> secs]

\* Whether the except branch of iteration `idx` sleeps.
SleepsAfterRaise(idx) == idx < max_retries - 1
\* wait_time of iteration `idx`
WaitTime(idx) == (idx + 1) * 2

\* One iteration of the retry loop, up to its sleep, in which ticker.history()
\* returns nothing ("empty": df is None or empty) or raises ("raised").  The
\* else branch of the test only prints; the except branch sleeps unless this
\* was the last iteration.
Attempt(outcome) ==
    /\ pc = "try"
    /\ log' = Append(log, AttemptEvent(attempt, outcome))
    /\ \/ /\ outcome = "empty"
          /\ pc' = IF attempt + 1 < max_retries THEN "try" ELSE "post"
          /\ attempt' = IF attempt + 1 < max_retries THEN attempt + 1 ELSE attempt
       \/ /\ outcome = "raised"
          /\ pc' = IF SleepsAfterRaise(attempt) THEN "sleep" ELSE "post"
          /\ attempt' = attempt
    /\ UNCHANGED <<fileExists, tableExists, store, call, ingests, result>>

\* time.sleep(wait_time) in the except branch, then the next iteration.
Sleep ==
    /\ pc = "sleep"
    /\ log' = Append(log, SleepEvent(attempt, WaitTime(attempt)))
    /\ attempt' = attempt + 1
    /\ pc' = "try"
    /\ UNCHANGED <<fileExists, tableExists, store, call, ingests, result>>

\* Lines 124-171 for the frame `frame`: the derived columns and the append to
\* stock_data.  sqlite3.connect creates the file, to_sql creates the table
\* when it is missing; a failed write is caught and reported.  `num` is the
\* day the fallback took for now (0 without fallback).
SaveFrame(frame, synthetic, num, save_ok) ==
    LET rows == DeriveMetrics(frame, call.symbol)
    IN /\ fileExists' = TRUE
       /\ tableExists' = (tableExists \/ save_ok)
       /\ store' = IF save_ok THEN store \o rows ELSE store
       /\ result' = Result("fetch_save", IF save_ok THEN "saved" ELSE "save_failed",
                           Upper(call.symbol), call.period, num, synthetic, rows)

Return ==
    /\ pc' = "idle"
    /\ call' = NoCall
    /\ attempt' = 0
    /\ log' = <<>>
    /\ UNCHANGED ingests

\* The iteration in which ticker.history() returns the non-empty `frame`: the
\* loop breaks, nothing is generated, and the frame is derived and saved.
FetchSaveData(frame, save_ok) ==
    /\ pc = "try"
    /\ SaveFrame(frame, FALSE, 0, save_ok)
    /\ Return

\* np.random.seed(hash(symbol) % 1000): one seed per symbol.
SymbolSeed(symbol) == IF Upper(symbol) = "A" THEN 0 ELSE 1

\* Variant of FetchSaveNoData that ignores use_sample_if_fails and always
\* falls back.
FetchSaveNoData_AlwaysFallback(save_ok, end_date) ==
    /\ pc = "post"
    /\ SaveFrame(generate_sample_data(call.symbol, SampleDays(call.period), end_date,
                                      SymbolSeed(call.symbol)),
                 TRUE, end_date, save_ok)
    /\ Return

\* Lines 115-171 when the loop ended without a frame: the ValueError, or the
\* synthetic frame for the day `end_date` that datetime.now() gives.
FetchSaveNoData(save_ok, end_date) ==
    /\ pc = "post"
    /\ IF call.use_sample
       THEN SaveFrame(generate_sample_data(call.symbol, SampleDays(call.period), end_date,
                                           SymbolSeed(call.symbol)),
                      TRUE, end_date, save_ok)
       ELSE /\ result' = Result("fetch_save", "ValueError", Upper(call.symbol), call.period, 0,
                                 FALSE, <<>>)
            /\ UNCHANGED <<fileExists, tableExists, store>>
    /\ Return

\* ------------------------------------------------------------- clear_old_data
\* The table after the DELETE statement clear_old_data executes; `given` is
\* false when the symbol argument is omitted (None).
clear_old_data(tbl, given, symbol) ==
    IF given /\ symbol # ""
    THEN SelectSeq(tbl, LAMBDA r : r.symbol # Upper(symbol))
    ELSE <<>>

\* clear_old_data: sqlite3.connect creates the file; the DELETE raises
\* OperationalError when the table is missing.
ClearOldData(given, symbol) ==
    /\ pc = "idle"
    /\ fileExists' = TRUE
    /\ IF tableExists
       THEN /\ store' = clear_old_data(store, given, symbol)
            /\ result' = Result("clear_old_data", "ok", symbol, "", 0, given, <<>>)
       ELSE /\ store' = store
            /\ result' = Result("clear_old_data", "OperationalError", symbol, "", 0, given, <<>>)
    /\ UNCHANGED <<tableExists, pc, call, attempt, log, ingests>>

\* ------------------------------------------------------------------- db.py
check_db_exists == fileExists

CheckDbExists ==
    /\ pc = "idle"
    /\ result' = Result("check_db_exists", "ok", "", "", 0, check_db_exists, <<>>)
    /\ UNCHANGED <<fileExists, tableExists, store, pc, call, attempt, log, ingests>>

\* db.get_symbol_data called on its own: get_db_connection creates the file,
\* read_sql_query raises when the table is missing.
GetSymbolData(symbol, limit) ==
    /\ pc = "idle"
    /\ fileExists' = TRUE
    /\ result' = IF tableExists
                 THEN Result("get_symbol_data", "ok", symbol, "", limit, FALSE,
                             get_symbol_data(store, symbol, limit))
                 ELSE Result("get_symbol_data", "DatabaseError", symbol, "", limit, FALSE, <<>>)
    /\ UNCHANGED <<tableExists, store, pc, call, attempt, log, ingests>>

\* ------------------------------------------------------------------- app.py
\* GET /data/{symbol}
GetLast30(symbol) ==
    /\ pc = "idle"
    /\ LET got == get_symbol_data(store, symbol, Last30Limit)
           recent == LastN(got, Last30Tail)
       IN result' =
            IF ~check_db_exists
            THEN Result("get_last_30", "503", Upper(symbol), "", 0, FALSE, <<>>)
            ELSE IF ~tableExists
            THEN Result("get_last_30", "DatabaseError", Upper(symbol), "", 0, FALSE, <<>>)
            ELSE IF got = <<>>
            THEN Result("get_last_30", "404", Upper(symbol), "", 0, FALSE, <<>>)
            ELSE Result("get_last_30", "ok", Upper(symbol), "", 0, FALSE,
                        [i \in 1..Len(recent) |-> Last30Row(recent[i])])
    /\ UNCHANGED <<fileExists, tableExists, store, pc, call, attempt, log, ingests>>

\* Variant of Restrict that keeps only the rows strictly after start_date.
Restrict_StrictlyAfter(rows, start_date) ==
    SortAsc(SelectSeq(rows, LAMBDA r : r.date > start_date))

\* The rows with date >= start_date, sorted by date.
Restrict(rows, start_date) == SortAsc(SelectSeq(rows, LAMBDA r : r.date >= start_date))

\* Variant of RestrictedSeries that anchors the window at the later of the two
\* latest dates.
RestrictedSeries_LatestOfBoth(tbl, sa, sb, days) ==
    LET dfa == get_symbol_data(tbl, sa, days * 2)
        dfb == get_symbol_data(tbl, sb, days * 2)
        latest_common_date == Max2(MaxDate(dfa), MaxDate(dfb))
    IN Restrict(dfa, latest_common_date - days)

\* Lines 183-208 of compare for symbol `sa` against `sb`: the frame of sa
\* restricted to the last `days` days before the latest date common to both.
\* Both symbols have rows.
RestrictedSeries(tbl, sa, sb, days) ==
    LET dfa == get_symbol_data(tbl, sa, days * 2)
        dfb == get_symbol_data(tbl, sb, days * 2)
        latest_common_date == Min2(MaxDate(dfa), MaxDate(dfb))
    IN Restrict(dfa, latest_common_date - days)

\* GET /compare
Compare(symbol1, symbol2, days) ==
    /\ pc = "idle"
    /\ LET s1 == Upper(symbol1)
           s2 == Upper(symbol2)
           df1 == get_symbol_data(store, s1, days * 2)
           df2 == get_symbol_data(store, s2, days * 2)
           r1 == RestrictedSeries(store, s1, s2, days)
           r2 == RestrictedSeries(store, s2, s1, days)
       IN result' =
            IF ~check_db_exists
            THEN Result("compare", "503", s1, s2, days, FALSE, <<>>)
            ELSE IF ~tableExists
            THEN Result("compare", "DatabaseError", s1, s2, days, FALSE, <<>>)
            ELSE IF df1 = <<>> \/ df2 = <<>>
            THEN Result("compare", "404", s1, s2, days, FALSE, <<>>)
            ELSE IF r1 = <<>> \/ r2 = <<>>
            THEN Result("compare", "400", s1, s2, days, FALSE, <<>>)
            ELSE Result("compare", "ok", s1, s2, days, FALSE, CompareRows(r1, r2, s1, s2))
    /\ UNCHANGED <<fileExists, tableExists, store, pc, call, attempt, log, ingests>>

\* ----------------------------------------------------------------------- next
Next ==
    \/ \E symbol \in SymbolInputs, period \in Periods, use_sample \in BOOLEAN :
          FetchSaveCall(symbol, period, use_sample)
    \/ \E outcome \in {"empty", "raised"} : Attempt(outcome)
    \/ Sleep
    \/ \E frame \in UpstreamFrames, save_ok \in BOOLEAN : FetchSaveData(frame, save_ok)
    \/ \E save_ok \in BOOLEAN, end_date \in Nows : FetchSaveNoData(save_ok, end_date)
    \/ \E symbol \in ClearInputs : ClearOldData(TRUE, symbol)
    \/ ClearOldData(FALSE, "")
    \/ CheckDbExists
    \/ \E symbol \in SymbolInputs, limit \in LimitInputs : GetSymbolData(symbol, limit)
    \/ \E symbol \in SymbolInputs : GetLast30(symbol)
    \/ \E symbol1 \in SymbolInputs, symbol2 \in SymbolInputs, days \in DaysInputs :
          Compare(symbol1, symbol2, days)

Spec == Init /\ [][Next]_vars

\* ===================================================================== claims
RowsOf(tbl, symbol) == SelectSeq(tbl, LAMBDA r : r.symbol = symbol)
Count(rows, x) == Cardinality({ i \in 1..Len(rows) : rows[i] = x })
Attempts(events) == SelectSeq(events, LAMBDA e : e.kind = "attempt")

\* C1: no two stored rows share the same (symbol, date) pair.
C1_UniqueSymbolDate ==
    \A i \in 1..Len(store) : \A j \in 1..Len(store) :
        i # j => ~(store[i].symbol = store[j].symbol /\ store[i].date = store[j].date)

\* C2: fetch_save makes at most 3 upstream attempts, and every attempt after
\* the first comes right after a sleep of (attempt_index + 1) * 2 seconds
\* counted from the attempt before it (2 s, then 4 s), whatever that attempt
\* did; there is no sleep after the third attempt.
C2_SleepBetweenAttempts ==
    /\ Len(Attempts(log)) <= 3
    /\ \A i \in 1..Len(log) :
          /\ (log[i].kind = "attempt" /\ i > 1) =>
                /\ log[i - 1].kind = "sleep"
                /\ log[i - 1].secs = ((log[i].idx - 1) + 1) * 2
          /\ log[i].kind = "sleep" => log[i].idx < 2

\* C3: when all three upstream attempts raised or came back empty, fetch_save
\* with the fallback disabled raises ValueError and leaves the store (file,
\* table, rows) as it was; with the fallback enabled it does not raise and
\* goes on with a synthetic frame of the period's length.  The ValueError is
\* raised in no other case.
C3_ExhaustedRetries ==
    [][ /\ (pc = "post" /\ pc' = "idle") =>
              /\ Len(Attempts(log)) = 3
              /\ \A i \in 1..Len(log) : log[i].kind = "attempt" => log[i].res \in {"empty", "raised"}
              /\ IF call.use_sample
                 THEN /\ result'.status \in {"saved", "save_failed"}
                      /\ result'.flag
                      /\ Len(result'.rows) = SampleDays(call.period)
                      /\ result'.status = "saved" => store' = store \o result'.rows
                 ELSE /\ result'.status = "ValueError"
                      /\ store' = store
                      /\ fileExists' = fileExists
                      /\ tableExists' = tableExists
        /\ (pc # "idle" /\ pc' = "idle" /\ result'.status = "ValueError") =>
              (pc = "post" /\ ~call.use_sample) ]_vars

\* A fetch_save that raised ValueError over a store that holds rows.
C3_Witness ==
    /\ result.op = "fetch_save"
    /\ result.status = "ValueError"
    /\ store # <<>>

\* The n most recent weekdays at or before day d, ascending.
RECURSIVE RecentWeekdays(_, _)
RecentWeekdays(d, n) ==
    IF n = 0 THEN <<>>
    ELSE IF d % 7 < 5 THEN Append(RecentWeekdays(d - 1, n - 1), d)
    ELSE RecentWeekdays(d - 1, n)

\* C4: the dates of the synthetic fallback for n trading days are the n most
\* recent weekdays at or before now, ascending.
C4_FallbackDatesMostRecent ==
    (result.op = "fetch_save" /\ result.flag) =>
        Col(result.rows, "date") = RecentWeekdays(result.num, SampleDays(result.sym2))

\* C5: every derived value fetch_save persists is the metric of the filled
\* raw columns (the fill comes before the derivation).
C5_FillBeforeDerive ==
    (result.op = "fetch_save" /\ result.status = "saved") =>
        LET rows == result.rows
            open == Col(rows, "open")
            high == Col(rows, "high")
            low == Col(rows, "low")
            close == Col(rows, "close")
            daily_return == [i \in 1..Len(rows) |-> DailyReturn(open[i], close[i])]
        IN \A i \in 1..Len(rows) :
              /\ rows[i].daily_return = daily_return[i]
              /\ rows[i].ma_7 = RollingMean(close, i, MaWindow)
              /\ rows[i].high_52w = RollingMax(high, i, window_days)
              /\ rows[i].low_52w = RollingMin(low, i, window_days)
              /\ rows[i].volatility = Annualized(RollingStd(daily_return, i, VolWindow))

\* C6: check_db_exists() returns true only if the table stock_data is present.
C6_ExistsImpliesSchema ==
    (result.op = "check_db_exists" /\ result.flag) => tableExists

\* C7: get_symbol_data(symbol, limit) returns exactly min(limit, available)
\* rows of the symbol, those of the greatest dates, in ascending date order
\* (nothing when the symbol has no rows).
C7_MostRecentLimitRows ==
    (result.op = "get_symbol_data" /\ result.status = "ok") =>
        LET avail == RowsOf(store, Upper(result.sym1))
            rows == result.rows
        IN /\ Len(rows) = Min2(result.num, Len(avail))
           /\ \A i \in 1..Len(rows) : \A j \in 1..Len(rows) : i < j => rows[i].date <= rows[j].date
           /\ \A i \in 1..Len(rows) : Count(rows, rows[i]) <= Count(avail, rows[i])
           /\ \A k \in 1..Len(avail) :
                 Count(rows, avail[k]) < Count(avail, avail[k]) =>
                    \A i \in 1..Len(rows) : avail[k].date <= rows[i].date

FirstRowHundred ==
    /\ result.rows # <<>>
    /\ result.rows[1].normalized[result.sym1] = Hundred
    /\ result.rows[1].normalized[result.sym2] = Hundred

\* The first close of the restricted series of sa (against sb) is a finite
\* number other than zero.
AnchorUsable(sa, sb, days) ==
    LET c == RestrictedSeries(store, sa, sb, days)[1].close
    IN IsNum(c) /\ c # 0

C9_ClearRemovesOnlySymbol ==
    [][ (pc = "idle" /\ result'.op = "clear_old_data" /\ result'.status = "ok") =>
            store' = IF result'.flag
                     THEN SelectSeq(store, LAMBDA r : r.symbol # Upper(result'.sym1))
                     ELSE <<>> ]_vars

\* C10: every persisted volatility is a defined number >= 0 (0 for the first
\* row of a series).
C10_VolatilityDefined ==
    (result.op = "fetch_save" /\ result.status = "saved") =>
        /\ \A i \in 1..Len(result.rows) :
              IsNum(result.rows[i].volatility) /\ result.rows[i].volatility >= 0
        /\ result.rows[1].volatility = 0

\* The rows compare fetches for a symbol: its 2 * days most recent rows,
\* oldest first.
Fetched(symbol, days) == get_symbol_data(store, symbol, days * 2)

\* common_end = min(max date of sa, max date of sb) over the fetched rows.
CommonEnd(sa, sb, days) ==
    Min2(MaxDate(Fetched(sa, days)), MaxDate(Fetched(sb, days)))

\* The fetched rows of sa with date >= common_end - days, oldest first.
Window(sa, sb, days) ==
    SelectSeq(Fetched(sa, days),
              LAMBDA r : r.date >= CommonEnd(sa, sb, days) - days)

\* C11: compare's output has exactly min(len1, len2) rows in ascending date
\* order, len1 and len2 counting the fetched rows of each symbol with
\* date >= common_end - days; row k carries the k-th date of symbol1's
\* restricted series and the k-th normalized value of each restricted series,
\* and every output date is >= common_end - days.
C11_PositionalPairing ==
    (result.op = "compare" /\ result.status = "ok") =>
        LET s1 == result.sym1
            s2 == result.sym2
            days == result.num
            w1 == Window(s1, s2, days)
            w2 == Window(s2, s1, days)
            rows == result.rows
        IN /\ Len(rows) = Min2(Len(w1), Len(w2))
           /\ \A k \in 1..Len(rows) :
                 /\ rows[k].date = w1[k].date
                 /\ rows[k].date >= CommonEnd(s1, s2, days) - days
                 /\ rows[k].normalized[s2] = Normalized(w2[k].close, w2[1].close)
                 /\ s1 # s2 =>
                       rows[k].normalized[s1] = Normalized(w1[k].close, w1[1].close)
           /\ \A j, k \in 1..Len(rows) : j < k => rows[j].date <= rows[k].date

\* A comparison of two different symbols whose restricted series have
\* different lengths and whose paired rows do not share a date.
C11_Witness ==
    /\ result.op = "compare"
    /\ result.status = "ok"
    /\ result.sym1 # result.sym2
    /\ Len(result.rows) >= 2
    /\ LET w1 == Window(result.sym1, result.sym2, result.num)
           w2 == Window(result.sym2, result.sym1, result.num)
       IN /\ Len(w1) # Len(w2)
          /\ \E k \in 1..Len(result.rows) : w1[k].date # w2[k].date

\* C12: whenever both symbols of a compare have at least one stored row, both
\* date-restricted series are non-empty and compare returns a result; the
\* InsufficientData outcome (400) never occurs, and on an existing store
\* compare fails only with NotFound (404).
C12_InsufficientDataUnreachable ==
    (result.op = "compare") =>
        /\ result.status # "400"
        /\ (RowsOf(store, result.sym1) # <<>> /\ RowsOf(store, result.sym2) # <<>>) =>
              /\ result.status = "ok"
              /\ Window(result.sym1, result.sym2, result.num) # <<>>
              /\ Window(result.sym2, result.sym1, result.num) # <<>>
              /\ result.rows # <<>>
        /\ (fileExists /\ tableExists /\ result.status # "ok") =>
              /\ result.status = "404"
              /\ RowsOf(store, result.sym1) = <<>> \/ RowsOf(store, result.sym2) = <<>>

\* A comparison over one day of two different symbols whose latest dates lie
\* further apart than the window, so that the later series ends outside it.
C12_Witness ==
    /\ result.op = "compare"
    /\ result.status = "ok"
    /\ result.sym1 # result.sym2
    /\ result.num = 1
    /\ MaxDate(Fetched(result.sym1, 1)) + 1 < MaxDate(Fetched(result.sym2, 1))

====
